---- MODULE Spec2Model ----
(***************************************************************************)
(* State-machine model of pyfair's dependency-driven calculation engine:   *)
(* FairDependencyTree (model_tree.py), FairCalculations (model_calc.py),   *)
(* the input / calculate_all methods of FairModel (model.py), and the      *)
(* parameter checks and sampling of FairDataInput (model_input.py).        *)
(*                                                                         *)
(* Simulation values are exact rationals <<numerator, denominator>>; a     *)
(* simulation vector is a sequence of n_simulations such values.           *)
(***************************************************************************)
EXTENDS Integers, Sequences, FiniteSets, TLC

\* ------------------------------------------------------------------------
\* Bounds of the model
\* ------------------------------------------------------------------------

\* n_simulations of the modelled FairModel (number of trials per vector).
NSim == 2

\* The number of input calls (input_data, input_raw_data, input_multi_data)
\* made over the life of the modelled FairModel.
MaxInputs == 4

\* The number of generate calls made on a FairDataInput driven directly.
MaxCalls == 3

\* ------------------------------------------------------------------------
\* The fixed tree topology  (FairDependencyTree.__init__ / _link_nodes)
\* ------------------------------------------------------------------------

\* An insertion order that puts every node after its children (post-order).
status_order_postorder ==
    << "Contact Frequency",
       "Probability of Action",
       "Threat Event Frequency",
       "Control Strength",
       "Threat Capability",
       "Vulnerability",
       "Loss Event Frequency",
       "Primary Loss",
       "Secondary Loss Event Frequency",
       "Secondary Loss Event Magnitude",
       "Secondary Loss",
       "Loss Magnitude",
       "Risk" >>

\* Insertion order of _node_statuses, as first filled by _obtain_status
\* (pre-order from the root); this is the order of the calculate_all queue.
status_order ==
    << "Risk",
       "Loss Event Frequency",
       "Threat Event Frequency",
       "Contact Frequency",
       "Probability of Action",
       "Vulnerability",
       "Control Strength",
       "Threat Capability",
       "Loss Magnitude",
       "Primary Loss",
       "Secondary Loss",
       "Secondary Loss Event Frequency",
       "Secondary Loss Event Magnitude" >>

Nodes == { status_order[i] : i \in 1..Len(status_order) }

\* node.children, in add_child order.
children ==
    [ n \in Nodes |->
        CASE n = "Risk"                   -> << "Loss Event Frequency", "Loss Magnitude" >>
          [] n = "Loss Event Frequency"   -> << "Threat Event Frequency", "Vulnerability" >>
          [] n = "Threat Event Frequency" -> << "Contact Frequency", "Probability of Action" >>
          [] n = "Vulnerability"          -> << "Control Strength", "Threat Capability" >>
          [] n = "Loss Magnitude"         -> << "Primary Loss", "Secondary Loss" >>
          [] n = "Secondary Loss"         -> << "Secondary Loss Event Frequency",
                                                "Secondary Loss Event Magnitude" >>
          [] OTHER                        -> << >> ]

ChildSet(n) == { children[n][i] : i \in 1..Len(children[n]) }

NoParent == "None"

\* node.parent, set by add_child -> add_parent.
parent ==
    [ n \in Nodes |->
        IF \E p \in Nodes : n \in ChildSet(p)
        THEN CHOOSE p \in Nodes : n \in ChildSet(p)
        ELSE NoParent ]

\* _leaf_nodes, in the order _obtain_leaf_nodes appends them.
_leaf_nodes ==
    SelectSeq(status_order, LAMBDA n : Len(children[n]) = 0)

RECURSIVE Descendants(_)
Descendants(n) ==
    ChildSet(n) \cup UNION { Descendants(c) : c \in ChildSet(n) }

RECURSIVE Ancestors(_)
Ancestors(n) ==
    IF parent[n] = NoParent THEN {} ELSE {parent[n]} \cup Ancestors(parent[n])

InnerNodes == { n \in Nodes : Len(children[n]) > 0 }

Status == { "Required", "Not Required", "Supplied", "Calculable", "Calculated" }

\* The statuses _propogate_up accepts in a child.
AllowsCalculation == { "Calculable", "Calculated", "Supplied" }

\* ------------------------------------------------------------------------
\* State
\* ------------------------------------------------------------------------
VARIABLES
    status,           \* node.status of each FairDependencyNode
    _node_statuses,   \* FairDependencyTree._node_statuses (a dict: its domain are the keys)
    _model_table,     \* FairModel._model_table: node name -> vector, NoVec if no data
    _supplied_values, \* FairDataInput._supplied_values (a dict: target key -> kwargs)
    last,             \* the last call made, its target node, and how it ended:
                      \* returned, raised (a FairException), hung, or the name of
                      \* another exception that escaped; for a call that takes
                      \* keyword arguments, the kwargs it was given
    n_inputs,         \* number of input calls made so far (bounded by MaxInputs)
    np_random,        \* numpy's process-global generator: the seed it was last given
                      \* and the number of variates drawn from it since
    returned,         \* the value the last FairDataInput.generate call returned
    own_draws,        \* number of variates the input calls of the modelled FairModel
                      \* themselves have drawn (history, not program state)
    key_order,        \* the keys of _supplied_values in the order the dict holds
                      \* them (insertion order), kept where the dict is serialized
    loaded,           \* the FairModel the last FairModel.read_json call returned
    _risk_table,      \* FairMetaModel._risk_table (a DataFrame)
    _params,          \* FairMetaModel._params (a dict: model name -> its document)
    models            \* the models argument FairMetaModel was constructed with

vars == << status, _node_statuses, _model_table, _supplied_values, last, n_inputs,
           np_random, returned, own_draws, key_order, loaded,
           _risk_table, _params, models >>

\* The variables only the sampling specifications change.
samplerVars == << np_random, returned, own_draws >>

\* The variables only the serialization specification changes.
jsonVars == << key_order, loaded >>

\* The variables of a FairMetaModel.
metaVars == << _risk_table, _params, models >>

\* No FairModel object.
NoModel == [ outcome |-> "None" ]

\* pd.DataFrame(): no rows and no columns. A frame is its number of rows
\* (a RangeIndex), its column names in order, and its columns.
EmptyFrame == [ index |-> 0, columns |-> << >>, data |-> [ c \in {} |-> << >> ] ]

NoVec == << >>

\* random_seed default of FairModel.__init__.
random_seed == 42

\* np.random.seed(s): the global generator restarts the stream of seed s.
seed(s) == [ seed |-> s, pos |-> 0 ]

\* The target recorded for a call that has none.
NoTarget == "None"

\* ------------------------------------------------------------------------
\* FairDependencyTree
\* ------------------------------------------------------------------------

RECURSIVE _propogate_down(_, _)
RECURSIVE PropDownAll(_, _, _)

\* _propogate_down over a list of nodes, left to right.
PropDownAll(st, ns, i) ==
    IF i > Len(ns) THEN st
    ELSE PropDownAll(_propogate_down(st, ns[i]), ns, i + 1)

\* _propogate_down without its recursive call: only the node itself.
_propogate_down_one_level(st, n) ==
    [st EXCEPT ![n] = "Not Required"]

\* _propogate_down writing 'Required' where it should write 'Not Required'.
_propogate_down_required(st, n) ==
    PropDownAll([st EXCEPT ![n] = "Required"], children[n], 1)

\* _propogate_down writing 'Calculable' where it should write 'Not Required'.
_propogate_down_calculable(st, n) ==
    PropDownAll([st EXCEPT ![n] = "Calculable"], children[n], 1)

_propogate_down(st, n) ==
    PropDownAll([st EXCEPT ![n] = "Not Required"], children[n], 1)

\* _propogate_up without its recursive call: only the immediate parent.
_propogate_up_one_level(st, n) ==
    IF parent[n] # NoParent
    THEN LET p == parent[n]
         IN  IF st[p] = "Required"
                /\ \A c \in ChildSet(p) : st[c] \in AllowsCalculation
             THEN [st EXCEPT ![p] = "Calculable"]
             ELSE st
    ELSE st

RECURSIVE _propogate_up_reopening(_, _)
\* _propogate_up that also promotes a Calculated parent.
_propogate_up_reopening(st, n) ==
    IF parent[n] # NoParent
    THEN LET p   == parent[n]
             st2 == IF st[p] \in { "Required", "Calculated" }
                       /\ \A c \in ChildSet(p) : st[c] \in AllowsCalculation
                    THEN [st EXCEPT ![p] = "Calculable"]
                    ELSE st
         IN  _propogate_up_reopening(st2, p)
    ELSE st

RECURSIVE _propogate_up_either_child(_, _)
\* _propogate_up that promotes a Required parent when one of its children
\* allows calculation.
_propogate_up_either_child(st, n) ==
    IF parent[n] # NoParent
    THEN LET p   == parent[n]
             st2 == IF st[p] = "Required"
                       /\ \E c \in ChildSet(p) : st[c] \in AllowsCalculation
                    THEN [st EXCEPT ![p] = "Calculable"]
                    ELSE st
         IN  _propogate_up_either_child(st2, p)
    ELSE st

RECURSIVE _propogate_up(_, _)
_propogate_up(st, n) ==
    IF parent[n] # NoParent
    THEN LET p   == parent[n]
             st2 == IF st[p] = "Required"
                       /\ \A c \in ChildSet(p) : st[c] \in AllowsCalculation
                    THEN [st EXCEPT ![p] = "Calculable"]
                    ELSE st
         IN  _propogate_up(st2, p)
    ELSE st

RECURSIVE PropUpAll(_, _, _)
\* `for node in self._leaf_nodes: self._propogate_up(node)`
PropUpAll(st, ns, i) ==
    IF i > Len(ns) THEN st
    ELSE PropUpAll(_propogate_up(st, ns[i]), ns, i + 1)

\* The effect of update_status on the nodes' status fields.
update_status(st, node_name, new_status) ==
    IF new_status = "Supplied"
    THEN LET st1 == [st EXCEPT ![node_name] = "Supplied"]
             st2 == PropDownAll(st1, children[node_name], 1)
         IN  PropUpAll(st2, _leaf_nodes, 1)
    ELSE IF new_status = "Calculated"
    THEN [st EXCEPT ![node_name] = "Calculated"]
    ELSE st

\* _obtain_status(self._root): the dict gets every node's current status.
_obtain_status(st) == [ n \in Nodes |-> st[n] ]

\* ready_for_calculation that also refuses a tree holding a Calculated node.
ready_for_calculation_uncalculated(ns) ==
    IF \E n \in DOMAIN ns : ns[n] \in { "Required", "Calculated" } THEN FALSE ELSE TRUE

\* ready_for_calculation, evaluated on the dict _node_statuses.
ready_for_calculation(ns) ==
    IF \E n \in DOMAIN ns : ns[n] = "Required" THEN FALSE ELSE TRUE

\* calculation_completed, evaluated on the root node's status field.
calculation_completed(st) ==
    IF st["Risk"] = "Calculated" THEN TRUE
    ELSE IF st["Risk"] = "Supplied" THEN TRUE
    ELSE FALSE

\* ------------------------------------------------------------------------
\* Simulation values and vectors
\* ------------------------------------------------------------------------

RECURSIVE GCD(_, _)
GCD(a, b) == IF b = 0 THEN a ELSE GCD(b, a % b)

Abs(a) == IF a < 0 THEN 0 - a ELSE a

\* The rational n/d in lowest terms (d > 0).
Rat(n, d) ==
    LET g == GCD(Abs(n), d) IN << n \div g, d \div g >>

RMul(x, y)  == Rat(x[1] * y[1], x[2] * y[2])
RAdd(x, y)  == Rat(x[1] * y[2] + y[1] * x[2], x[2] * y[2])
RLess(x, y) == x[1] * y[2] < y[1] * x[2]
RLeq(x, y)  == x[1] * y[2] <= y[1] * x[2]

Zero == Rat(0, 1)
One  == Rat(1, 1)

\* np.full(count, value)
Full(count, value) == [ i \in 1..count |-> value ]

\* ------------------------------------------------------------------------
\* FairCalculations
\* ------------------------------------------------------------------------

\* child_1_data * child_2_data, element-wise
_calculate_multiplication(child_1_data, child_2_data) ==
    [ i \in 1..Len(child_1_data) |-> RMul(child_1_data[i], child_2_data[i]) ]

\* child_1_data + child_2_data, element-wise
_calculate_addition(child_1_data, child_2_data) ==
    [ i \in 1..Len(child_1_data) |-> RAdd(child_1_data[i], child_2_data[i]) ]

\* mean of (child_1_data < child_2_data), broadcast over the vector length
_calculate_step_average(child_1_data, child_2_data) ==
    LET bool_series == [ i \in 1..Len(child_1_data) |->
                            RLess(child_1_data[i], child_2_data[i]) ]
        trues == Cardinality({ i \in 1..Len(bool_series) : bool_series[i] })
    IN  IF Len(bool_series) = 0 THEN NoVec
        ELSE Full(Len(bool_series), Rat(trues, Len(bool_series)))

\* _function_dict
_function_dict ==
    [ n \in { "Risk", "Loss Event Frequency", "Threat Event Frequency", "Vulnerability",
              "Loss Magnitude", "Primary Loss", "Secondary Loss" } |->
        CASE n = "Vulnerability"  -> "step_average"
          [] n = "Loss Magnitude" -> "addition"
          [] OTHER                -> "multiplication" ]

\* FairCalculations.calculate
calculate(parent_name, child_1_data, child_2_data) ==
    CASE _function_dict[parent_name] = "step_average" ->
            _calculate_step_average(child_1_data, child_2_data)
      [] _function_dict[parent_name] = "addition" ->
            _calculate_addition(child_1_data, child_2_data)
      [] OTHER ->
            _calculate_multiplication(child_1_data, child_2_data)

\* ------------------------------------------------------------------------
\* FairModel.calculate_all
\* ------------------------------------------------------------------------

\* The mutable part of a FairModel the scheduler works on, as a record
\* [status, _node_statuses, _model_table].
Model(st, ns, tbl) == [ status |-> st, _node_statuses |-> ns, _model_table |-> tbl ]

\* _calculate_node that hands Vulnerability its children in the order
\* Threat Capability, Control Strength.
_calculate_node_reversed(m, name) ==
    LET child_1 == children[name][1]
        child_2 == children[name][2]
        child_1_ready == m.status[child_1] \in { "Calculated", "Supplied" }
        child_2_ready == m.status[child_2] \in { "Calculated", "Supplied" }
        child_1_data == IF name = "Vulnerability"
                        THEN m._model_table["Threat Capability"]
                        ELSE m._model_table[child_1]
        child_2_data == IF name = "Vulnerability"
                        THEN m._model_table["Control Strength"]
                        ELSE m._model_table[child_2]
        st2 == update_status(m.status, name, "Calculated")
    IN  IF child_1_ready /\ child_2_ready
        THEN Model(st2,
                   _obtain_status(st2),
                   [ m._model_table EXCEPT ![name] =
                        calculate(name, child_1_data, child_2_data) ])
        ELSE m

\* _calculate_node that takes a child for ready only once it is Calculated.
_calculate_node_calculated_children(m, name) ==
    LET child_1 == children[name][1]
        child_2 == children[name][2]
        child_1_ready == m.status[child_1] \in { "Calculated" }
        child_2_ready == m.status[child_2] \in { "Calculated" }
        child_1_data == IF name = "Vulnerability"
                        THEN m._model_table["Control Strength"]
                        ELSE m._model_table[child_1]
        child_2_data == IF name = "Vulnerability"
                        THEN m._model_table["Threat Capability"]
                        ELSE m._model_table[child_2]
        st2 == update_status(m.status, name, "Calculated")
    IN  IF child_1_ready /\ child_2_ready
        THEN Model(st2,
                   _obtain_status(st2),
                   [ m._model_table EXCEPT ![name] =
                        calculate(name, child_1_data, child_2_data) ])
        ELSE m

\* _calculate_node that reports the node to the tree as 'Supplied'.
_calculate_node_supplied(m, name) ==
    LET child_1 == children[name][1]
        child_2 == children[name][2]
        child_1_ready == m.status[child_1] \in { "Calculated", "Supplied" }
        child_2_ready == m.status[child_2] \in { "Calculated", "Supplied" }
        child_1_data == IF name = "Vulnerability"
                        THEN m._model_table["Control Strength"]
                        ELSE m._model_table[child_1]
        child_2_data == IF name = "Vulnerability"
                        THEN m._model_table["Threat Capability"]
                        ELSE m._model_table[child_2]
        st2 == update_status(m.status, name, "Supplied")
    IN  IF child_1_ready /\ child_2_ready
        THEN Model(st2,
                   _obtain_status(st2),
                   [ m._model_table EXCEPT ![name] =
                        calculate(name, child_1_data, child_2_data) ])
        ELSE m

\* _calculate_node(name) on model m
_calculate_node(m, name) ==
    LET child_1 == children[name][1]
        child_2 == children[name][2]
        child_1_ready == m.status[child_1] \in { "Calculated", "Supplied" }
        child_2_ready == m.status[child_2] \in { "Calculated", "Supplied" }
        child_1_data == IF name = "Vulnerability"
                        THEN m._model_table["Control Strength"]
                        ELSE m._model_table[child_1]
        child_2_data == IF name = "Vulnerability"
                        THEN m._model_table["Threat Capability"]
                        ELSE m._model_table[child_2]
        st2 == update_status(m.status, name, "Calculated")
    IN  IF child_1_ready /\ child_2_ready
        THEN Model(st2,
                   _obtain_status(st2),
                   [ m._model_table EXCEPT ![name] =
                        calculate(name, child_1_data, child_2_data) ])
        ELSE m

Remove(q, x) == SelectSeq(q, LAMBDA y : y # x)

RECURSIVE ForEachNode(_, _, _, _)
\* `for node_name in node_names:` of one pass of the while-loop; r is
\* [m |-> model, queue |-> calculable_nodes].
ForEachNode(node_name_snapshot, i, m, queue) ==
    IF i > Len(node_name_snapshot) THEN [ m |-> m, queue |-> queue ]
    ELSE LET node_name == node_name_snapshot[i]
             m2 == _calculate_node(m, node_name)
             q2 == IF m2.status[node_name] = "Calculated"
                   THEN Remove(queue, node_name)
                   ELSE queue
         IN  ForEachNode(node_name_snapshot, i + 1, m2, q2)

RECURSIVE WhileCalculable(_, _)
\* `while calculable_nodes:`; a pass that calculates nothing leaves the
\* loop in the state it started the pass in, so the loop never ends.
WhileCalculable(m, calculable_nodes) ==
    IF calculable_nodes = << >>
    THEN [ m |-> m, outcome |-> "returned" ]
    ELSE LET r == ForEachNode(calculable_nodes, 1, m, calculable_nodes)
         IN  IF r.queue = calculable_nodes
             THEN [ m |-> r.m, outcome |-> "hung" ]
             ELSE WhileCalculable(r.m, r.queue)

\* The keys of _node_statuses with value 'Calculable', in key order.
CalculableNodes(ns) ==
    SelectSeq(status_order, LAMBDA n : n \in DOMAIN ns /\ ns[n] = "Calculable")

\* calculate_all on model m: the model it leaves and how the call ended.
calculate_all(m) ==
    IF ~ ready_for_calculation(m._node_statuses)
    THEN [ m |-> m, outcome |-> "raised" ]
    ELSE WhileCalculable(m, CalculableNodes(m._node_statuses))

\* ------------------------------------------------------------------------
\* FairDataInput
\* ------------------------------------------------------------------------

_le_1_targets ==
    { "Probability of Action", "Vulnerability", "Control Strength", "Threat Capability" }

\* np.clip(results, 0.0, inf) for every target.
Clip_floor_only(target, results) ==
    [ i \in 1..Len(results) |->
        IF RLess(results[i], Zero) THEN Zero ELSE results[i] ]

\* np.clip(results, 0.0, 1.0) for a bounded target, np.clip(results, 0.0, inf) otherwise
Clip(target, results) ==
    [ i \in 1..Len(results) |->
        IF RLess(results[i], Zero) THEN Zero
        ELSE IF target \in _le_1_targets /\ RLess(One, results[i]) THEN One
        ELSE results[i] ]

\* Does _generate_single(target, count, constant=value) raise?
\* (_check_le_1, then the `value < 0` test of _check_parameters)
ConstantRejected(target, value) ==
    \/ target \in _le_1_targets /\ ~ (RLeq(Zero, value) /\ RLeq(value, One))
    \/ RLess(value, Zero)

\* _generate_single(target, count, constant=value) when it does not raise
_generate_single(target, count, value) ==
    Clip(target, Full(count, value))

\* Does supply_raw(target, array) raise?  (values are numeric, never null)
RawRejected(target, array) ==
    /\ target \in _le_1_targets
    /\ \E i \in 1..Len(array) : RLess(One, array[i]) \/ RLess(array[i], Zero)

RECURSIVE ProdColumns(_, _, _)
\* df.prod(axis=1) of one named item: the product of its columns
ProdColumns(item, count, j) ==
    IF j > Len(item) THEN Full(count, One)
    ELSE _calculate_multiplication(_generate_single("item", count, item[j]),
                                   ProdColumns(item, count, j + 1))

RECURSIVE SumItems(_, _, _)
\* np.sum(df.prod(axis=1) for df in df_dict.values())
SumItems(kwargs_dict, count, k) ==
    IF k > Len(kwargs_dict) THEN Full(count, Zero)
    ELSE _calculate_addition(ProdColumns(kwargs_dict[k], count, 1),
                             SumItems(kwargs_dict, count, k + 1))

\* Does generate_multi raise?  The target handed to _generate_single is the
\* item's name, which is never a bounded node.
MultiRejected(kwargs_dict) ==
    \E k \in 1..Len(kwargs_dict) : \E j \in 1..Len(kwargs_dict[k]) :
        ConstantRejected("item", kwargs_dict[k][j])

generate_multi(count, kwargs_dict) == SumItems(kwargs_dict, count, 1)

\* ------------------------------------------------------------------------
\* Inputs the model is driven with
\* ------------------------------------------------------------------------

\* (target, constant) pairs given to input_data: 0.8 for every node, also
\* 0.3 for the two children of Vulnerability, 2 for Loss Event Frequency,
\* and 2 for Vulnerability (out of range for a bounded node).
InputDataArgs ==
    (Nodes \X { Rat(4, 5) })
    \cup ({ "Control Strength", "Threat Capability" } \X { Rat(3, 10) })
    \cup ({ "Loss Event Frequency", "Vulnerability" } \X { Rat(2, 1) })

\* A raw array of n_simulations values that differ between trials, and one
\* that is one value short.
RampArray  == [ i \in 1..NSim |-> IF i = 1 THEN Rat(3, 10) ELSE Rat(4, 5) ]
ShortArray == [ i \in 1..(NSim - 1) |-> Rat(3, 10) ]

\* (target, array) pairs given to input_raw_data.
InputRawDataArgs ==
    ({ "Control Strength", "Loss Magnitude" } \X { RampArray })
    \cup { << "Control Strength", ShortArray >> }

\* Targets of input_multi_data ("only used for Secondary Loss" by its
\* docstring).
MultiTargets == { "Secondary Loss" }

\* (target, kwargs_dict) pairs given to input_multi_data; a kwargs_dict is a
\* list of named items, each the list of the constants of its columns.
InputMultiDataArgs ==
    MultiTargets \X { << << Rat(2, 1), Rat(4, 5) >>, << Rat(2, 1), Rat(2, 1) >> >> }

HasVector(tbl, n) == tbl[n] # NoVec

\* d[key] = value on a dict
Put(d, key, value) ==
    [ k \in DOMAIN d \cup { key } |-> IF k = key THEN value ELSE d[k] ]

\* 'multi_' + final_target, the key generate_multi records under
MultiKey(final_target) == "multi_" \o final_target

\* ------------------------------------------------------------------------
\* FairDataInput.generate with arbitrary keyword arguments
\* ------------------------------------------------------------------------
\* kwargs is a function from keyword names to values.  An operator that
\* stands for a call that can raise yields an `error`: NoError,
\* "FairException", or the name of the Python exception that escapes.

NoError == "None"

_le_1_keywords == { "constant", "high", "mode", "low", "mean" }

\* The bound method of each keyword, by name.
_parameter_map ==
    [ constant |-> "_gen_constant",
      high     |-> "_gen_pert",
      mode     |-> "_gen_pert",
      low      |-> "_gen_pert",
      gamma    |-> "_gen_pert",
      mean     |-> "_gen_normal",
      stdev    |-> "_gen_normal" ]

_required_keywords ==
    [ _gen_constant |-> { "constant" },
      _gen_pert     |-> { "low", "mode", "high" },
      _gen_normal   |-> { "mean", "stdev" } ]

RSub(x, y) == Rat(x[1] * y[2] - y[1] * x[2], x[2] * y[2])

\* _check_le_1(target, **kwargs): does it raise FairException?
_check_le_1(target, kwargs) ==
    \E key \in DOMAIN kwargs :
        /\ key \in _le_1_keywords
        /\ target \in _le_1_targets
        /\ ~ (RLeq(Zero, kwargs[key]) /\ RLeq(kwargs[key], One))

\* _determine_func(**kwargs): the function chosen, or the error raised.
\* With no keyword at all `functions` is empty and functions[0] raises
\* IndexError.
_determine_func(kwargs) ==
    LET functions == { _parameter_map[key] : key \in DOMAIN kwargs \cap DOMAIN _parameter_map }
    IN  IF \E key \in DOMAIN kwargs : key \notin DOMAIN _parameter_map
        THEN [ error |-> "FairException", function |-> NoTarget ]
        ELSE IF Cardinality(functions) > 1
        THEN [ error |-> "FairException", function |-> NoTarget ]
        ELSE IF functions = {}
        THEN [ error |-> "IndexError", function |-> NoTarget ]
        ELSE [ error |-> NoError, function |-> CHOOSE f \in functions : TRUE ]

\* _check_parameters without its test for values below zero.
_check_parameters_keys_only(target_function, kwargs) ==
    \E required_keyword \in _required_keywords[target_function] :
        required_keyword \notin DOMAIN kwargs

\* _check_parameters(target_function, **kwargs): does it raise FairException?
_check_parameters(target_function, kwargs) ==
    \/ \E keyword \in DOMAIN kwargs :
          /\ keyword \in { "mean", "constant", "low", "mode", "high" }
          /\ RLess(kwargs[keyword], Zero)
    \/ \E required_keyword \in _required_keywords[target_function] :
          required_keyword \notin DOMAIN kwargs

\* _check_pert(**kwargs): does it raise FairException?
_check_pert(kwargs) ==
    \/ ~ RLeq(kwargs["low"], kwargs["mode"])
    \/ ~ RLeq(kwargs["mode"], kwargs["high"])

\* FairBetaPert._run_range_check: does it raise FairException?
_run_range_check(low, high) == RSub(high, low) = Zero

\* The k-th variate of the stream numpy's generator produces for a seed:
\* a fixed function of the seed and the position.  For a normal
\* distribution it is the standard deviate, an integer in -2..2; for a beta
\* distribution it is the fraction of the support, in 0, 1/4 .. 1.
Deviate(s, k) == ((s + 3 * k) % 5) - 2
Fraction(s, k) == Rat((s + 3 * k) % 5, 4)

\* _gen_constant(count, **kwargs)
_gen_constant(count, kwargs) == Full(count, kwargs["constant"])

\* _gen_normal(count, **kwargs), drawing from generator state rng:
\* loc + scale * standard deviate.
_gen_normal(count, kwargs, rng) ==
    [ i \in 1..count |->
        RAdd(kwargs["mean"],
             RMul(kwargs["stdev"], Rat(Deviate(rng.seed, rng.pos + i - 1), 1))) ]

\* FairBetaPert(**kwargs).random_variates(count), drawing from generator
\* state rng: a beta variate on the support [low, low + range].
random_variates(count, kwargs, rng) ==
    [ i \in 1..count |->
        RAdd(kwargs["low"],
             RMul(RSub(kwargs["high"], kwargs["low"]),
                  Fraction(rng.seed, rng.pos + i - 1))) ]

\* What a call of the generating function func does: its error, its
\* results, and the number of variates it took from the generator.
CallFunc(func, count, kwargs, rng) ==
    IF func = "_gen_constant"
    THEN [ error |-> NoError, results |-> _gen_constant(count, kwargs), drawn |-> 0 ]
    ELSE IF func = "_gen_normal"
    THEN [ error |-> NoError, results |-> _gen_normal(count, kwargs, rng), drawn |-> count ]
    ELSE IF _check_pert(kwargs) \/ _run_range_check(kwargs["low"], kwargs["high"])
    THEN [ error |-> "FairException", results |-> NoVec, drawn |-> 0 ]
    ELSE [ error |-> NoError, results |-> random_variates(count, kwargs, rng), drawn |-> count ]

\* _generate_single(target, count, **kwargs)
GenerateSingle(target, count, kwargs, rng) ==
    LET func == _determine_func(kwargs)
    IN  IF target \in _le_1_targets /\ _check_le_1(target, kwargs)
        THEN [ error |-> "FairException", results |-> NoVec, drawn |-> 0 ]
        ELSE IF func.error # NoError
        THEN [ error |-> func.error, results |-> NoVec, drawn |-> 0 ]
        ELSE IF _check_parameters(func.function, kwargs)
        THEN [ error |-> "FairException", results |-> NoVec, drawn |-> 0 ]
        ELSE LET r == CallFunc(func.function, count, kwargs, rng)
             IN  IF r.error # NoError THEN r
                 ELSE [ r EXCEPT !.results = Clip(target, r.results) ]

\* The kwargs generate records: gamma = 4 is added to a PERT set without it.
RecordedKwargs(kwargs) ==
    IF "low" \in DOMAIN kwargs /\ "gamma" \notin DOMAIN kwargs
    THEN Put(kwargs, "gamma", Rat(4, 1))
    ELSE kwargs

\* generate(target, count, **kwargs) on a FairDataInput whose
\* _supplied_values is sv: the error, the vector returned, the
\* _supplied_values left and the variates drawn.
generate(sv, target, count, kwargs, rng) ==
    LET r == GenerateSingle(target, count, kwargs, rng)
    IN  IF r.error # NoError
        THEN [ error |-> r.error, result |-> NoVec, _supplied_values |-> sv, drawn |-> 0 ]
        ELSE [ error |-> NoError, result |-> r.results,
               _supplied_values |-> Put(sv, target, RecordedKwargs(kwargs)),
               drawn |-> r.drawn ]

\* ------------------------------------------------------------------------
\* Initial state: FairModel.__init__ / FairDependencyTree.__init__
\* ------------------------------------------------------------------------

Init ==
    /\ status = [ n \in Nodes |-> "Required" ]
    /\ _node_statuses = [ n \in {} |-> "Required" ]
    /\ _model_table = [ n \in Nodes |-> NoVec ]
    /\ _supplied_values = [ k \in {} |-> << >> ]
    /\ last = [ op |-> "__init__", target |-> NoTarget, outcome |-> "returned" ]
    /\ n_inputs = 0
    /\ np_random = seed(random_seed)
    /\ returned = NoVec
    /\ own_draws = 0
    /\ key_order = << >>
    /\ loaded = NoModel
    /\ _risk_table = EmptyFrame
    /\ _params = [ k \in {} |-> << >> ]
    /\ models = << >>

\* ------------------------------------------------------------------------
\* A FairDependencyTree driven directly (as tests/model/test_model_tree.py)
\* ------------------------------------------------------------------------

\* tree.update_status(node_name, new_status).
\* FairModel, the tree's caller, sends 'Calculated' for a Calculable node
\* (_calculate_node) or for the node it has just sent 'Supplied' for
\* (input_multi_data); the tests send it for Calculable nodes.
UpdateStatus(node_name, new_status) ==
    /\ new_status = "Calculated" =>
          \/ status[node_name] = "Calculable"
          \/ status[node_name] = "Supplied" /\ node_name \in MultiTargets
    /\ status' = update_status(status, node_name, new_status)
    /\ _node_statuses' = _obtain_status(status')
    /\ last' = [ op |-> "update_status", target |-> node_name, outcome |-> "returned" ]
    /\ UNCHANGED << _model_table, _supplied_values, n_inputs >>
    /\ UNCHANGED << samplerVars, jsonVars, metaVars >>

\* new_status values update_status is called with.
NewStatuses == { "Supplied", "Calculated" }

NextTree ==
    \E node_name \in Nodes, new_status \in NewStatuses :
        UpdateStatus(node_name, new_status)

SpecTree == Init /\ [][NextTree]_vars

\* ------------------------------------------------------------------------
\* A FairModel driven through its public methods
\* ------------------------------------------------------------------------

\* model.input_data(target, constant=value)
InputData(target, value) ==
    /\ n_inputs < MaxInputs
    /\ n_inputs' = n_inputs + 1
    /\ UNCHANGED << samplerVars, jsonVars, metaVars >>
    /\ IF ConstantRejected(target, value)
       THEN /\ last' = [ op |-> "input_data", target |-> target, outcome |-> "raised" ]
            /\ UNCHANGED << status, _node_statuses, _model_table, _supplied_values >>
       ELSE IF target \notin Nodes
       THEN \* generate has recorded the kwargs; self.nodes[node_name] raises
            /\ _supplied_values' = Put(_supplied_values, target, [ constant |-> value ])
            /\ last' = [ op |-> "input_data", target |-> target, outcome |-> "KeyError" ]
            /\ UNCHANGED << status, _node_statuses, _model_table >>
       ELSE /\ status' = update_status(status, target, "Supplied")
            /\ _node_statuses' = _obtain_status(status')
            /\ _model_table' = [ _model_table EXCEPT ![target] =
                                    _generate_single(target, NSim, value) ]
            /\ _supplied_values' = Put(_supplied_values, target, [ constant |-> value ])
            /\ last' = [ op |-> "input_data", target |-> target, outcome |-> "returned" ]

\* input_raw_data without its check of len(array).
InputRawData_any_length(target, array) ==
    /\ n_inputs < MaxInputs
    /\ n_inputs' = n_inputs + 1
    /\ UNCHANGED << samplerVars, jsonVars, metaVars >>
    /\ IF RawRejected(target, array)
       THEN /\ last' = [ op |-> "input_raw_data", target |-> target, outcome |-> "raised" ]
            /\ UNCHANGED << status, _node_statuses, _model_table, _supplied_values >>
       ELSE /\ status' = update_status(status, target, "Supplied")
            /\ _node_statuses' = _obtain_status(status')
            /\ _model_table' = [ _model_table EXCEPT ![target] = array ]
            /\ _supplied_values' = Put(_supplied_values, target, [ raw |-> array ])
            /\ last' = [ op |-> "input_raw_data", target |-> target, outcome |-> "returned" ]

\* model.input_raw_data(target, array)
InputRawData(target, array) ==
    /\ n_inputs < MaxInputs
    /\ n_inputs' = n_inputs + 1
    /\ UNCHANGED << samplerVars, jsonVars, metaVars >>
    /\ IF Len(array) # NSim \/ RawRejected(target, array)
       THEN /\ last' = [ op |-> "input_raw_data", target |-> target, outcome |-> "raised" ]
            /\ UNCHANGED << status, _node_statuses, _model_table, _supplied_values >>
       ELSE IF target \notin Nodes
       THEN \* supply_raw has recorded the array; self.nodes[node_name] raises
            /\ _supplied_values' = Put(_supplied_values, target, [ raw |-> array ])
            /\ last' = [ op |-> "input_raw_data", target |-> target, outcome |-> "KeyError" ]
            /\ UNCHANGED << status, _node_statuses, _model_table >>
       ELSE /\ status' = update_status(status, target, "Supplied")
            /\ _node_statuses' = _obtain_status(status')
            /\ _model_table' = [ _model_table EXCEPT ![target] = array ]
            /\ _supplied_values' = Put(_supplied_values, target, [ raw |-> array ])
            /\ last' = [ op |-> "input_raw_data", target |-> target, outcome |-> "returned" ]

\* input_multi_data that sends the tree 'Calculated' only.
InputMultiData_calculated_only(target, kwargs_dict) ==
    /\ n_inputs < MaxInputs
    /\ n_inputs' = n_inputs + 1
    /\ UNCHANGED << samplerVars, jsonVars, metaVars >>
    /\ IF MultiRejected(kwargs_dict)
       THEN /\ last' = [ op |-> "input_multi_data", target |-> target, outcome |-> "raised" ]
            /\ UNCHANGED << status, _node_statuses, _model_table, _supplied_values >>
       ELSE /\ status' = update_status(status, target, "Calculated")
            /\ _node_statuses' = _obtain_status(status')
            /\ _model_table' = [ _model_table EXCEPT ![target] =
                                    generate_multi(NSim, kwargs_dict) ]
            /\ _supplied_values' = Put(_supplied_values, MultiKey(target), kwargs_dict)
            /\ last' = [ op |-> "input_multi_data", target |-> target, outcome |-> "returned" ]

\* model.input_multi_data(target, kwargs_dict)
InputMultiData(target, kwargs_dict) ==
    /\ n_inputs < MaxInputs
    /\ n_inputs' = n_inputs + 1
    /\ UNCHANGED << samplerVars, jsonVars, metaVars >>
    /\ IF MultiRejected(kwargs_dict)
       THEN /\ last' = [ op |-> "input_multi_data", target |-> target, outcome |-> "raised" ]
            /\ UNCHANGED << status, _node_statuses, _model_table, _supplied_values >>
       ELSE IF target \notin Nodes
       THEN \* generate_multi has recorded the dict; self.nodes[node_name] raises
            /\ _supplied_values' = Put(_supplied_values, MultiKey(target), kwargs_dict)
            /\ last' = [ op |-> "input_multi_data", target |-> target, outcome |-> "KeyError" ]
            /\ UNCHANGED << status, _node_statuses, _model_table >>
       ELSE /\ status' = update_status(update_status(status, target, "Supplied"),
                                       target, "Calculated")
            /\ _node_statuses' = _obtain_status(status')
            /\ _model_table' = [ _model_table EXCEPT ![target] =
                                    generate_multi(NSim, kwargs_dict) ]
            /\ _supplied_values' = Put(_supplied_values, MultiKey(target), kwargs_dict)
            /\ last' = [ op |-> "input_multi_data", target |-> target, outcome |-> "returned" ]

\* model.calculate_all()
CalculateAll ==
    LET r == calculate_all(Model(status, _node_statuses, _model_table))
    IN  /\ status' = r.m.status
        /\ _node_statuses' = r.m._node_statuses
        /\ _model_table' = r.m._model_table
        /\ last' = [ op |-> "calculate_all", target |-> NoTarget, outcome |-> r.outcome ]
        /\ UNCHANGED << _supplied_values, n_inputs >>
        /\ UNCHANGED << samplerVars, jsonVars, metaVars >>

Next ==
    \/ \E a \in InputDataArgs : InputData(a[1], a[2])
    \/ \E a \in InputRawDataArgs : InputRawData(a[1], a[2])
    \/ \E a \in InputMultiDataArgs : InputMultiData(a[1], a[2])
    \/ CalculateAll

Spec == Init /\ [][Next]_vars

\* ------------------------------------------------------------------------
\* A FairDataInput driven directly (as tests/model/test_model_input.py)
\* ------------------------------------------------------------------------

\* How a call ended, as `last` records it.
Outcome(error) ==
    IF error = NoError THEN "returned"
    ELSE IF error = "FairException" THEN "raised"
    ELSE error

\* The keywords generate knows.
Keywords == DOMAIN _parameter_map

\* Values within every value rule: a constant, a normal whose deviates
\* leave [0, 1] on both sides, and a PERT on [0, 1].
BenignValues ==
    [ constant |-> Rat(1, 2),
      mean     |-> Rat(1, 2),
      stdev    |-> Rat(2, 1),
      low      |-> Zero,
      mode     |-> Rat(1, 2),
      high     |-> One,
      gamma    |-> Rat(2, 1) ]

\* Every set of keywords, the empty one included, with benign values.
KeywordSetKwargs == { [ k \in ks |-> BenignValues[k] ] : ks \in SUBSET Keywords }

Pert(low, mode, high) == [ low |-> low, mode |-> mode, high |-> high ]

\* Complete keyword sets whose values are at or beyond a value rule.
ValueKwargs ==
    { [ constant |-> Rat(0 - 1, 1) ], [ constant |-> Rat(2, 1) ],
      [ mean |-> Rat(0 - 1, 1), stdev |-> Rat(2, 1) ],
      [ mean |-> Rat(2, 1), stdev |-> Rat(2, 1) ],
      Pert(Rat(0 - 1, 1), Rat(1, 2), One),
      Pert(Rat(1, 2), Rat(1, 2), Rat(1, 2)),
      Pert(Rat(1, 2), Rat(1, 4), One),
      Pert(Zero, Rat(2, 1), One),
      Pert(One, Rat(1, 2), Zero),
      Pert(Zero, One, Rat(2, 1)),
      Pert(Rat(1, 2), Rat(1, 2), One),
      Pert(Zero, One, One) }

\* (target, kwargs) pairs given to generate: every keyword set for an
\* unbounded node, the value cases for an unbounded and a bounded node.
GenerateArgs ==
    ({ "Loss Event Frequency" } \X KeywordSetKwargs)
    \cup ({ "Loss Event Frequency", "Vulnerability" } \X ValueKwargs)
    \cup ({ "Vulnerability" } \X
            { kw \in KeywordSetKwargs :
                DOMAIN kw \in { { "constant" }, { "mean", "stdev" },
                                { "low", "mode", "high" } } })

\* data_input.generate(target, NSim, **kwargs)
Generate(target, kwargs) ==
    /\ n_inputs < MaxCalls
    /\ n_inputs' = n_inputs + 1
    /\ UNCHANGED << jsonVars, metaVars >>
    /\ LET r == generate(_supplied_values, target, NSim, kwargs, np_random)
       IN  /\ _supplied_values' = r._supplied_values
           /\ returned' = r.result
           /\ np_random' = [ np_random EXCEPT !.pos = @ + r.drawn ]
           /\ own_draws' = own_draws + r.drawn
           /\ last' = [ op |-> "generate", target |-> target,
                        outcome |-> Outcome(r.error), kwargs |-> kwargs ]
    /\ UNCHANGED << status, _node_statuses, _model_table >>

NextSampler == \E a \in GenerateArgs : Generate(a[1], a[2])

SpecSampler == Init /\ [][NextSampler]_vars

\* ------------------------------------------------------------------------
\* A FairModel given arbitrary keyword arguments, arrays and target names
\* ------------------------------------------------------------------------

\* self._target_map, lowercase keys included
_target_map ==
    LET upper == [ LEF  |-> "Loss Event Frequency",
                   TEF  |-> "Threat Event Frequency",
                   V    |-> "Vulnerability",
                   C    |-> "Contact Frequency",
                   A    |-> "Probability of Action",
                   TC   |-> "Threat Capability",
                   CS   |-> "Control Strength",
                   LM   |-> "Loss Magnitude",
                   PL   |-> "Primary Loss",
                   SL   |-> "Secondary Loss",
                   SLEF |-> "Secondary Loss Event Frequency",
                   SLEM |-> "Secondary Loss Event Magnitude" ]
        lower == [ lef  |-> upper.LEF, tef |-> upper.TEF, v |-> upper.V, c |-> upper.C,
                   a    |-> upper.A, tc |-> upper.TC, cs |-> upper.CS, lm |-> upper.LM,
                   pl   |-> upper.PL, sl |-> upper.SL, slef |-> upper.SLEF,
                   slem |-> upper.SLEM ]
    IN  upper @@ lower

_standardize_target(target) ==
    IF target \in DOMAIN _target_map THEN _target_map[target] ELSE target

\* The 'mode' -> 'most_likely' conversion at the head of input_data.
ModeToMostLikely(kwargs) ==
    IF "mode" \in DOMAIN kwargs
    THEN [ k \in (DOMAIN kwargs \ { "mode" }) \cup { "most_likely" } |->
              IF k = "most_likely" THEN kwargs["mode"] ELSE kwargs[k] ]
    ELSE kwargs

\* model.input_data(target, **kwargs)
InputDataKw(target, kwargs) ==
    /\ n_inputs < MaxCalls
    /\ n_inputs' = n_inputs + 1
    /\ UNCHANGED << jsonVars, metaVars >>
    /\ LET converted == ModeToMostLikely(kwargs)
           std == _standardize_target(target)
           r == generate(_supplied_values, std, NSim, converted, np_random)
           accepted == r.error = NoError /\ std \in Nodes
       IN  /\ _supplied_values' = r._supplied_values
           /\ returned' = r.result
           /\ np_random' = [ np_random EXCEPT !.pos = @ + r.drawn ]
           /\ own_draws' = own_draws + r.drawn
           /\ last' = [ op |-> "input_data", target |-> std,
                        outcome |-> IF r.error # NoError THEN Outcome(r.error)
                                    ELSE IF std \notin Nodes THEN "KeyError"
                                    ELSE "returned",
                        kwargs |-> kwargs ]
           /\ IF accepted
              THEN /\ status' = update_status(status, std, "Supplied")
                   /\ _node_statuses' = _obtain_status(status')
                   /\ _model_table' = [ _model_table EXCEPT ![std] = r.result ]
              ELSE UNCHANGED << status, _node_statuses, _model_table >>

\* A PERT set that names its most likely value 'most_likely'.
MostLikely(low, most_likely, high) ==
    [ low |-> low, most_likely |-> most_likely, high |-> high ]

\* kwargs given to input_data: a constant, a normal, PERT sets under either
\* name of the most likely value and with gamma, and a constant above 1.
InputKwargs ==
    { [ constant |-> Rat(1, 2) ],
      [ mean |-> Rat(1, 2), stdev |-> Rat(2, 1) ],
      Pert(Zero, Rat(1, 2), One),
      MostLikely(Zero, Rat(1, 2), One),
      Put(Pert(Zero, Rat(1, 2), One), "gamma", Rat(2, 1)),
      Pert(Rat(1, 2), Rat(1, 2), One),
      [ constant |-> Rat(2, 1) ] }

\* A name outside the 13 nodes and the abbreviations.
UnknownTarget == "Bogus"

\* Targets of input_data: an unbounded node, a bounded node, an
\* abbreviation, and an unknown name.
InputTargets == { "Loss Event Frequency", "Vulnerability", "LM", UnknownTarget }

\* Arrays of n_simulations values with a negative value, and with a value
\* above 1.
NegativeArray == [ i \in 1..NSim |-> IF i = 1 THEN Rat(0 - 1, 2) ELSE Rat(4, 5) ]
AboveOneArray == [ i \in 1..NSim |-> IF i = 1 THEN Rat(3, 10) ELSE Rat(2, 1) ]

RawArgs ==
    ({ "Loss Magnitude", "Control Strength" }
        \X { RampArray, NegativeArray, AboveOneArray, ShortArray })
    \cup { << UnknownTarget, RampArray >> }

\* kwargs_dict values given to input_multi_data: the accepted one, and one
\* whose second item holds a negative constant.
MultiArgs ==
    ({ "Secondary Loss", UnknownTarget }
        \X { << << Rat(2, 1), Rat(4, 5) >>, << Rat(2, 1), Rat(2, 1) >> >> })
    \cup { << "Secondary Loss", << << Rat(2, 1), Rat(4, 5) >>, << Rat(0 - 1, 1) >> >> >> }

NextInputs ==
    \/ \E target \in InputTargets, kwargs \in InputKwargs : InputDataKw(target, kwargs)
    \/ \E a \in RawArgs : n_inputs < MaxCalls /\ InputRawData(a[1], a[2])
    \/ \E a \in MultiArgs : n_inputs < MaxCalls /\ InputMultiData(a[1], a[2])
    \/ CalculateAll

SpecInputs == Init /\ [][NextInputs]_vars

\* ------------------------------------------------------------------------
\* A FairModel sampled while other FairModels are constructed and sampled
\* ------------------------------------------------------------------------

\* Another FairModel is constructed with random_seed s (np.random.seed(s),
\* model.py:74) and given `inputs` normal inputs, each drawing NSim variates
\* from the global generator.
OtherModel(s, inputs) ==
    /\ n_inputs < MaxCalls
    /\ n_inputs' = n_inputs + 1
    /\ np_random' = [ seed |-> s, pos |-> inputs * NSim ]
    /\ last' = [ op |-> "FairModel", target |-> NoTarget, outcome |-> "returned" ]
    /\ UNCHANGED << status, _node_statuses, _model_table, _supplied_values,
                    returned, own_draws >>
    /\ UNCHANGED << jsonVars, metaVars >>

\* random_seed values of the other models: the default, and another.
OtherSeeds == { random_seed, 1 }

\* inputs of the modelled FairModel: normals and a constant
SampledKwargs ==
    { [ mean |-> Rat(1, 2), stdev |-> Rat(2, 1) ],
      [ mean |-> Rat(3, 1), stdev |-> Rat(1, 2) ],
      [ constant |-> Rat(1, 2) ] }

NextSeeds ==
    \/ \E target \in { "Loss Event Frequency", "Loss Magnitude" }, kwargs \in SampledKwargs :
          InputDataKw(target, kwargs)
    \/ \E s \in OtherSeeds, inputs \in 0..1 : OtherModel(s, inputs)

SpecSeeds == Init /\ [][NextSeeds]_vars

\* ------------------------------------------------------------------------
\* FairModel objects as values; to_json and read_json
\* ------------------------------------------------------------------------

\* F(value), where value is evaluated once, however often F uses it.
Bind(value, F(_)) == CHOOSE result \in { F(v) : v \in { value } } : TRUE

\* FairModel(name, n_simulations, random_seed) as __init__ leaves it: the
\* fields the input, calculation and export methods work on, and how the
\* last call on the object ended.
FairModel(name, n_simulations, seed_value) ==
    [ _name            |-> name,
      _n_simulations   |-> n_simulations,
      _random_seed     |-> seed_value,
      status           |-> [ n \in Nodes |-> "Required" ],
      _node_statuses   |-> [ n \in {} |-> "Required" ],
      _model_table     |-> [ n \in Nodes |-> NoVec ],
      _supplied_values |-> [ k \in {} |-> << >> ],
      key_order        |-> << >>,
      outcome          |-> "returned" ]

\* d[key] = value, on the key order of dict d: a new key goes last, a key
\* the dict already holds keeps its place.
PutKey(keys, key) ==
    IF \E i \in 1..Len(keys) : keys[i] = key THEN keys ELSE Append(keys, key)

\* model.input_data(target, constant=value)
input_data(model, target, value) ==
    LET std == _standardize_target(target)
        recorded == [ model EXCEPT
                        !._supplied_values = Put(@, std, [ constant |-> value ]),
                        !.key_order = PutKey(@, std) ]
        st == update_status(model.status, std, "Supplied")
    IN  IF ConstantRejected(std, value)
        THEN [ model EXCEPT !.outcome = "raised" ]
        ELSE IF std \notin Nodes
        THEN [ recorded EXCEPT !.outcome = "KeyError" ]
        ELSE [ recorded EXCEPT
                 !.status = st,
                 !._node_statuses = _obtain_status(st),
                 !._model_table = [ @ EXCEPT ![std] =
                                      _generate_single(std, model._n_simulations, value) ],
                 !.outcome = "returned" ]

\* model.input_raw_data(target, array)
input_raw_data(model, target, array) ==
    LET std == _standardize_target(target)
        recorded == [ model EXCEPT
                        !._supplied_values = Put(@, std, [ raw |-> array ]),
                        !.key_order = PutKey(@, std) ]
        st == update_status(model.status, std, "Supplied")
    IN  IF Len(array) # model._n_simulations \/ RawRejected(std, array)
        THEN [ model EXCEPT !.outcome = "raised" ]
        ELSE IF std \notin Nodes
        THEN [ recorded EXCEPT !.outcome = "KeyError" ]
        ELSE [ recorded EXCEPT
                 !.status = st,
                 !._node_statuses = _obtain_status(st),
                 !._model_table = [ @ EXCEPT ![std] = array ],
                 !.outcome = "returned" ]

\* Is key 'multi_' + a name?  (param_name.startswith('multi'): no node
\* name and no name in InputTargets starts with 'multi')
IsMultiKey(key) == \E n \in Nodes \cup InputTargets : key = MultiKey(n)

\* target.lstrip('multi_'): the characters m, u, l, t, i and _ are stripped
\* from the left. Every name starts with a capital letter, so the prefix
\* 'multi_' goes and nothing else.
lstrip_multi(target) ==
    IF IsMultiKey(target)
    THEN CHOOSE n \in Nodes \cup InputTargets : target = MultiKey(n)
    ELSE target

\* model.input_multi_data(target, kwargs_dict)
input_multi_data(model, target, kwargs_dict) ==
    LET mod_target == lstrip_multi(target)
        new_target == MultiKey(mod_target)
        recorded == [ model EXCEPT
                        !._supplied_values = Put(@, new_target, kwargs_dict),
                        !.key_order = PutKey(@, new_target) ]
        st == update_status(update_status(model.status, mod_target, "Supplied"),
                            mod_target, "Calculated")
    IN  IF MultiRejected(kwargs_dict)
        THEN [ model EXCEPT !.outcome = "raised" ]
        ELSE IF mod_target \notin Nodes
        THEN [ recorded EXCEPT !.outcome = "KeyError" ]
        ELSE [ recorded EXCEPT
                 !.status = st,
                 !._node_statuses = _obtain_status(st),
                 !._model_table = [ @ EXCEPT ![mod_target] =
                                      generate_multi(model._n_simulations, kwargs_dict) ],
                 !.outcome = "returned" ]

\* model.calculate_all()
calculate_all_on(model) ==
    LET r == calculate_all(Model(model.status, model._node_statuses, model._model_table))
    IN  [ model EXCEPT !.status = r.m.status,
                       !._node_statuses = r.m._node_statuses,
                       !._model_table = r.m._model_table,
                       !.outcome = r.outcome ]

\* json.loads(model.to_json()): the recorded parameters, key by key in the
\* order the dict holds them, and the metadata read_json reads. (name,
\* model_uuid, creation_date and version are strings copied through.)
to_json(model) ==
    [ params        |-> [ i \in 1..Len(model.key_order) |->
                            << model.key_order[i],
                               model._supplied_values[model.key_order[i]] >> ],
      name          |-> model._name,
      n_simulations |-> model._n_simulations,
      random_seed   |-> model._random_seed,
      type          |-> "FairModel" ]

RECURSIVE LoadParams(_, _, _)
\* `for param_name, param_value in data.items():` of read_json; a call that
\* raises ends the loop.
LoadParams(model, params, i) ==
    IF i > Len(params) THEN model
    ELSE LET param_name  == params[i][1]
             param_value == params[i][2]
         IN  Bind(IF IsMultiKey(param_name)
                  THEN input_multi_data(model, param_name, param_value)
                  ELSE IF "raw" \in DOMAIN param_value
                  THEN input_raw_data(model, param_name, param_value.raw)
                  ELSE input_data(model, param_name, param_value.constant),
                  LAMBDA m2 : IF m2.outcome # "returned" THEN m2
                              ELSE LoadParams(m2, params, i + 1))

\* FairModel.read_json(json_data), on the parsed document: the model it
\* builds, with the outcome of the call that ended it.
read_json(data) ==
    IF data.type # "FairModel"
    THEN [ FairModel(data.name, data.n_simulations, data.random_seed)
             EXCEPT !.outcome = "raised" ]
    ELSE LET model == FairModel(data.name, data.n_simulations, data.random_seed)
         IN  Bind(LoadParams(model, data.params, 1),
                  LAMBDA m2 : IF m2.outcome # "returned" THEN m2
                              ELSE calculate_all_on(m2))

\* The modelled FairModel as an object.
ThisModel ==
    [ _name            |-> "m",
      _n_simulations   |-> NSim,
      _random_seed     |-> random_seed,
      status           |-> status,
      _node_statuses   |-> _node_statuses,
      _model_table     |-> _model_table,
      _supplied_values |-> _supplied_values,
      key_order        |-> key_order,
      outcome          |-> "returned" ]

\* model.input_data(target, constant=value), the key order of the
\* recorded parameters included
InputDataJson(target, value) ==
    /\ n_inputs < MaxInputs
    /\ n_inputs' = n_inputs + 1
    /\ \E r \in { input_data(ThisModel, target, value) } :
           /\ status' = r.status
           /\ _node_statuses' = r._node_statuses
           /\ _model_table' = r._model_table
           /\ _supplied_values' = r._supplied_values
           /\ key_order' = r.key_order
           /\ last' = [ op |-> "input_data", target |-> target, outcome |-> r.outcome ]
    /\ UNCHANGED << samplerVars, loaded, metaVars >>

\* FairModel.read_json(model.to_json()); the constructor it calls reseeds
\* the global generator (model.py:74).
ReadJson ==
    \E r \in { read_json(to_json(ThisModel)) } :
        /\ loaded' = IF r.outcome = "returned" THEN r ELSE NoModel
        /\ last' = [ op |-> "read_json", target |-> NoTarget, outcome |-> r.outcome ]
        /\ np_random' = seed(r._random_seed)
        /\ UNCHANGED << status, _node_statuses, _model_table, _supplied_values,
                        n_inputs, returned, own_draws, key_order, metaVars >>

\* (target, constant) pairs given to input_data before serialization: a
\* chain of ancestors and descendants, and a value out of range.
JsonInputArgs ==
    ({ "Risk", "Loss Event Frequency", "Threat Event Frequency",
       "Vulnerability", "Loss Magnitude" } \X { Rat(4, 5) })
    \cup { << "Vulnerability", Rat(2, 1) >> }

NextJson ==
    \/ \E a \in JsonInputArgs : InputDataJson(a[1], a[2])
    \/ CalculateAll
    \/ ReadJson

SpecJson == Init /\ [][NextJson]_vars

\* ------------------------------------------------------------------------
\* FairMetaModel
\* ------------------------------------------------------------------------

\* np.nan, in the shape of a number.
NaN == << 0, 0 >>

\* frame[name] = series. A frame without rows takes the index of the
\* series. A frame with rows reindexes the series to its own index: values
\* past the last row are dropped, rows the series lacks get NaN. A new
\* name becomes the last column, a name the frame has keeps its place.
SetColumn(frame, name, series) ==
    LET index == IF frame.index = 0 THEN Len(series) ELSE frame.index
        aligned == [ i \in 1..index |-> IF i <= Len(series) THEN series[i] ELSE NaN ]
    IN  [ index   |-> index,
          columns |-> PutKey(frame.columns, name),
          data    |-> Put(frame.data, name, aligned) ]

RECURSIVE SumCells(_, _, _)
\* The sum of row i over the first k columns. NaN cells are skipped
\* (skipna=True is the default of DataFrame.sum) and the sum of no cells
\* is 0.
SumCells(frame, i, k) ==
    IF k = 0 THEN Zero
    ELSE LET cell == frame.data[frame.columns[k]][i]
         IN  IF cell = NaN THEN SumCells(frame, i, k - 1)
             ELSE RAdd(SumCells(frame, i, k - 1), cell)

\* frame.sum(axis=1)
sum_axis_1(frame) ==
    [ i \in 1..frame.index |-> SumCells(frame, i, Len(frame.columns)) ]

\* pd.isnull(series).any()
isnull_any(series) == \E i \in 1..Len(series) : series[i] = NaN

\* What is handed to FairMetaModel that is not a model.
Garbage == NoModel

RECURSIVE LoadModels(_, _, _)
\* `for model in models:` of FairMetaModel.__init__ on FairModels:
\* _load_model is _record_params, then _calculate_model, in which
\* model.calculate_all() raises if the model is not ready. (Component
\* FairMetaModels, which are unpacked into their FairModels, are left out.)
LoadModels(meta, ms, i) ==
    IF i > Len(ms) THEN meta
    ELSE IF ms[i] = Garbage THEN [ meta EXCEPT !.outcome = "raised" ]
    ELSE LET model_params == to_json(ms[i])
             recorded == [ meta EXCEPT !._params = Put(@, model_params.name, model_params) ]
         IN  Bind(calculate_all_on(ms[i]),
                  LAMBDA model :
                     IF model.outcome # "returned"
                     THEN [ recorded EXCEPT !.outcome = model.outcome ]
                     ELSE Bind([ recorded EXCEPT !._risk_table =
                                   SetColumn(@, model_params.name,
                                             model._model_table["Risk"]) ],
                               LAMBDA loaded_meta : LoadModels(loaded_meta, ms, i + 1)))

\* FairMetaModel(name, models)
NewMetaModel(ms) ==
    /\ last.op = "__init__"
    /\ \E r \in { LoadModels([ _risk_table |-> EmptyFrame,
                               _params     |-> [ k \in {} |-> << >> ],
                               outcome     |-> "returned" ], ms, 1) } :
           /\ _risk_table' = r._risk_table
           /\ _params' = r._params
           /\ last' = [ op |-> "FairMetaModel", target |-> NoTarget, outcome |-> r.outcome ]
    /\ models' = ms
    /\ UNCHANGED << status, _node_statuses, _model_table, _supplied_values, n_inputs,
                    samplerVars, jsonVars >>

\* meta.calculate_all(), on a FairMetaModel whose constructor returned
MetaCalculateAll ==
    /\ n_inputs < MaxCalls
    /\ \/ last.op = "FairMetaModel" /\ last.outcome = "returned"
       \/ last.op = "FairMetaModel.calculate_all"
    /\ n_inputs' = n_inputs + 1
    /\ \E sum_vector \in { sum_axis_1(_risk_table) } :
           /\ _risk_table' = SetColumn(_risk_table, "Risk", sum_vector)
           /\ last' = [ op |-> "FairMetaModel.calculate_all", target |-> NoTarget,
                        outcome |-> IF isnull_any(sum_vector) THEN "raised"
                                    ELSE "returned" ]
    /\ UNCHANGED << status, _node_statuses, _model_table, _supplied_values,
                    _params, models, samplerVars, jsonVars >>

\* No constant: the node is given no input.
NoInput == << >>

\* The FairModel named name with n_simulations trials, after input_data
\* with constants for Loss Event Frequency and (unless lm is NoInput) for
\* Loss Magnitude.
Component(name, n_simulations, lef, lm) ==
    Bind(input_data(FairModel(name, n_simulations, random_seed),
                    "Loss Event Frequency", lef),
         LAMBDA m1 : IF lm = NoInput THEN m1 ELSE input_data(m1, "Loss Magnitude", lm))

\* The models FairMetaModel is constructed from: two names, every
\* n_simulations up to NSim, two Risk values, and a model that is not
\* ready for calculation.
Components ==
    { Component(name, n, Rat(2, 1), lm) :
        name \in { "A", "B" }, n \in 1..NSim, lm \in { Rat(3, 1), Rat(1, 2), NoInput } }

ModelLists ==
    { << c >> : c \in Components } \cup (Components \X Components)
    \cup { << Garbage >> }

NextMeta ==
    \/ \E ms \in ModelLists : NewMetaModel(ms)
    \/ MetaCalculateAll

SpecMeta == Init /\ [][NextMeta]_vars

\* ------------------------------------------------------------------------
\* Properties
\* ------------------------------------------------------------------------

Returned(op) == last.op = op /\ last.outcome = "returned"

Child1(n) == children[n][1]
Child2(n) == children[n][2]

\* A Calculated node that input_multi_data did not mark: generate_multi
\* records its target under the 'multi_' key, and a node that was once
\* Supplied is never Calculable again, so never marked by calculate_all.
SchedulerMarked(n) ==
    status[n] = "Calculated" /\ MultiKey(n) \notin DOMAIN _supplied_values

\* What the combinator of inner node n gives on the vectors its two
\* children hold in table tbl.
Combination(tbl, n) ==
    IF n = "Loss Magnitude"
    THEN [ i \in 1..NSim |-> RAdd(tbl[Child1(n)][i], tbl[Child2(n)][i]) ]
    ELSE IF n = "Vulnerability"
    THEN [ i \in 1..NSim |->
            Rat(Cardinality({ j \in 1..NSim :
                    RLess(tbl["Control Strength"][j], tbl["Threat Capability"][j]) }),
                NSim) ]
    ELSE [ i \in 1..NSim |-> RMul(tbl[Child1(n)][i], tbl[Child2(n)][i]) ]

\* The while-loop of calculate_all ends in every reachable state.
CalculateAllNeverHangs == last.outcome # "hung"

\* C1: calculate_all() called while at least one node has status Required
\* (a newly constructed model included) raises the not-ready error, and the
\* raise leaves every node status and every vector unchanged.
C1_NotReadyRaises ==
    [][ (CalculateAll /\ \E n \in Nodes : status[n] = "Required")
        => (/\ last'.outcome = "raised"
            /\ status' = status
            /\ _model_table' = _model_table) ]_vars

\* C1 restricted to models whose tree has had at least one update_status
\* call (the status dict is filled): there the not-ready error is raised.
NotReadyRaisesOnceUpdated ==
    [][ (CalculateAll /\ DOMAIN _node_statuses # {}
                      /\ \E n \in Nodes : status[n] = "Required")
        => (/\ last'.outcome = "raised"
            /\ status' = status
            /\ _model_table' = _model_table) ]_vars

\* C2: whenever calculate_all() returns without raising,
\* calculation_completed() is true, no node is left Calculable or Required,
\* and the table holds a vector for Risk and for every Calculated or
\* Supplied node.
C2_ReturnMeansCompleted ==
    Returned("calculate_all") =>
        /\ calculation_completed(status)
        /\ \A n \in Nodes : status[n] \notin { "Calculable", "Required" }
        /\ Len(_model_table["Risk"]) = NSim
        /\ \A n \in Nodes : status[n] \in { "Calculated", "Supplied" }
                                => Len(_model_table[n]) = NSim

\* C2 restricted to models whose status dict is filled.
ReturnMeansCompletedOnceUpdated ==
    (Returned("calculate_all") /\ DOMAIN _node_statuses # {}) =>
        /\ calculation_completed(status)
        /\ \A n \in Nodes : status[n] \notin { "Calculable", "Required" }
        /\ Len(_model_table["Risk"]) = NSim
        /\ \A n \in Nodes : status[n] \in { "Calculated", "Supplied" }
                                => Len(_model_table[n]) = NSim

\* C3: after a successful calculate_all(), every node the scheduler marked
\* Calculated holds the element-wise combination of its two children's
\* vectors (product; sum for Loss Magnitude); in particular constant Loss
\* Event Frequency a and Loss Magnitude b give Risk = a*b in every trial.
C3_CalculatedIsCombination ==
    Returned("calculate_all") =>
        \A n \in InnerNodes \ { "Vulnerability" } :
            SchedulerMarked(n) => _model_table[n] = Combination(_model_table, n)

\* What calculate_all does guarantee: each node it marks Calculated in a
\* call holds, when the call returns, the combination of the vectors its
\* children hold then.
NewlyCalculatedIsCombination ==
    [][ last'.op = "calculate_all" =>
            \A n \in InnerNodes :
                (status[n] # "Calculated" /\ status'[n] = "Calculated")
                    => _model_table'[n] = Combination(_model_table', n) ]_vars

C5_CalculateAllIdempotent ==
    [][ (Returned("calculate_all") /\ last'.op = "calculate_all")
        => (/\ last'.outcome = "returned"
            /\ status' = status
            /\ _node_statuses' = _node_statuses
            /\ _model_table' = _model_table) ]_vars

\* A calculate_all that computed Risk has returned; since the second call
\* changes no variable, this is also the state the second call ends in.
C5_Witness ==
    /\ Returned("calculate_all")
    /\ SchedulerMarked("Risk")
    /\ SchedulerMarked("Loss Magnitude")
    /\ _model_table["Risk"] = Combination(_model_table, "Risk")

\* C6: after calculate_all() has completed, re-supplying a node with
\* input_data reopens the nodes computed from it: every ancestor that was
\* Calculated leaves Calculated, and after the next calculate_all() each
\* such ancestor's vector is its combinator applied to its children's
\* current vectors.
C6_ResupplyReopensAncestors ==
    [][ /\ (last'.op = "input_data" /\ last'.outcome = "returned"
                /\ n_inputs' = n_inputs + 1 /\ calculation_completed(status))
            => \A n \in Ancestors(last'.target) :
                    SchedulerMarked(n) => status'[n] # "Calculated"
        /\ (Returned("input_data") /\ last'.op = "calculate_all"
                /\ last'.outcome = "returned")
            => \A n \in Ancestors(last.target) :
                    (status'[n] = "Calculated"
                        /\ MultiKey(n) \notin DOMAIN _supplied_values')
                    => _model_table'[n] = Combination(_model_table', n) ]_vars

\* C7: in every reachable state of the dependency tree, from construction
\* onward, ready_for_calculation() is true exactly when no node has status
\* Required.
C7_ReadyIffNoRequired ==
    ready_for_calculation(_node_statuses)
        <=> (\A n \in Nodes : status[n] # "Required")

\* C7 restricted to trees that have had at least one update_status call.
ReadyIffNoRequiredOnceUpdated ==
    DOMAIN _node_statuses # {} =>
        (ready_for_calculation(_node_statuses)
            <=> (\A n \in Nodes : status[n] # "Required"))

\* C8: from any reachable state, update_status(X, 'Supplied') sets X to
\* Supplied and leaves every proper descendant of X Not Required, whatever
\* status the descendant had before.  X is the target of the operation
\* that made the step.
C8_SuppliedClearsDescendants ==
    [][ (last'.target # NoTarget
         /\ status' = update_status(status, last'.target, "Supplied"))
        => LET X == last'.target
           IN  /\ status'[X] = "Supplied"
               /\ \A d \in Descendants(X) : status'[d] = "Not Required" ]_vars

\* Risk was supplied by input_data over a Loss Magnitude that calculate_all
\* had computed from Primary Loss 0.8 + Secondary Loss 0.8 (1.6 is no input
\* value of Loss Magnitude), and over a supplied Loss Event Frequency.
C8_Witness ==
    /\ Returned("input_data")
    /\ status["Risk"] = "Supplied"
    /\ \A d \in Descendants("Risk") : status[d] = "Not Required"
    /\ _model_table["Loss Magnitude"] = Full(NSim, Rat(8, 5))
    /\ HasVector(_model_table, "Loss Event Frequency")

\* C9: every update_status(X, 'Supplied') brings upward promotion to its
\* fixpoint within the call: a node that was Required ends Calculable iff
\* both its children end in {Calculable, Calculated, Supplied}, however
\* many levels the promotion cascades (with all 7 leaves Supplied no inner
\* node is Required); a Required node with a child not ready stays Required.
C9_PromotionReachesFixpoint ==
    [][ (last'.op = "update_status" /\ UpdateStatus(last'.target, "Supplied"))
        => LET X == last'.target
           IN  /\ \A n \in InnerNodes :
                    status[n] = "Required" =>
                        /\ status'[n] = "Calculable"
                              <=> \A c \in ChildSet(n) : status'[c] \in AllowsCalculation
                        /\ (n \notin ({X} \cup Descendants(X))
                            /\ \E c \in ChildSet(n) : status'[c] \notin AllowsCalculation)
                              => status'[n] = "Required"
               /\ (\A l \in Nodes \ InnerNodes : status'[l] = "Supplied")
                    => \A n \in InnerNodes : status'[n] # "Required" ]_vars

\* All 7 leaves were supplied one by one and every inner node, Risk
\* included, has been promoted to Calculable.
C9_Witness ==
    /\ Returned("update_status")
    /\ \A l \in Nodes \ InnerNodes : status[l] = "Supplied"
    /\ \A n \in InnerNodes : status[n] = "Calculable"

\* C10: under any sequence of operations, a node whose status has left
\* Required never has status Required again.
C10_NoPathBackToRequired ==
    [][ \A n \in Nodes : status[n] # "Required" => status'[n] # "Required" ]_vars

\* A node has been supplied, made Not Required by supplying its parent,
\* supplied again, and calculate_all has run: no node is Required.
C10_Witness ==
    /\ Returned("calculate_all")
    /\ n_inputs = MaxInputs
    /\ status["Loss Event Frequency"] = "Supplied"
    /\ status["Threat Event Frequency"] = "Supplied"
    /\ HasVector(_model_table, "Vulnerability")
    /\ status["Vulnerability"] = "Not Required"
    /\ \A n \in Nodes : status[n] # "Required"

\* The keyword sets of the three groups: the required keys of one group,
\* with gamma optional for PERT.
FullGroups ==
    { { "constant" }, { "mean", "stdev" },
      { "low", "mode", "high" }, { "low", "mode", "high", "gamma" } }

\* C16: generate raises FairException and records nothing for every set of
\* keyword names, the empty set included, that is not the full set of
\* required keys of exactly one group.
C16_KeywordSetsOutsideOneGroupRaise ==
    [][ (last'.op = "generate" /\ n_inputs' # n_inputs
         /\ DOMAIN last'.kwargs \notin FullGroups)
        => /\ last'.outcome = "raised"
           /\ _supplied_values' = _supplied_values
           /\ returned' = NoVec ]_vars

\* The same for the keyword sets that hold at least one keyword.
NonEmptyKeywordSetsOutsideOneGroupRaise ==
    [][ (last'.op = "generate" /\ n_inputs' # n_inputs
         /\ DOMAIN last'.kwargs \notin FullGroups
         /\ DOMAIN last'.kwargs # {})
        => /\ last'.outcome = "raised"
           /\ _supplied_values' = _supplied_values
           /\ returned' = NoVec ]_vars

\* generate given no keyword ends with an IndexError and records nothing.
EmptyKeywordSetRaisesIndexError ==
    [][ (last'.op = "generate" /\ n_inputs' # n_inputs /\ DOMAIN last'.kwargs = {})
        => /\ last'.outcome = "IndexError"
           /\ _supplied_values' = _supplied_values ]_vars

\* The value rules: a negative mean, constant, low, mode or high; one of
\* those outside [0, 1] for a bounded node; a PERT set without
\* low <= mode <= high and low < high.
BreaksValueRule(target, kwargs) ==
    \/ \E k \in DOMAIN kwargs \cap { "mean", "constant", "low", "mode", "high" } :
          \/ RLess(kwargs[k], Zero)
          \/ target \in _le_1_targets /\ RLess(One, kwargs[k])
    \/ /\ { "low", "mode", "high" } \subseteq DOMAIN kwargs
       /\ ~ (/\ RLeq(kwargs["low"], kwargs["mode"])
             /\ RLeq(kwargs["mode"], kwargs["high"])
             /\ RLess(kwargs["low"], kwargs["high"]))

\* C18: generate rejects every parameter set that breaks a value rule,
\* before any variate is drawn and without recording the parameters.
C18_ValueRulesRejected ==
    [][ (last'.op = "generate" /\ n_inputs' # n_inputs
         /\ BreaksValueRule(last'.target, last'.kwargs))
        => /\ last'.outcome = "raised"
           /\ _supplied_values' = _supplied_values
           /\ returned' = NoVec
           /\ np_random' = np_random ]_vars

\* A zero-range PERT on an unbounded node was rejected after a normal input
\* for that node had been recorded and had drawn variates.
C18_Witness ==
    /\ last.op = "generate" /\ last.outcome = "raised"
    /\ last.target = "Loss Event Frequency"
    /\ last.kwargs = Pert(Rat(1, 2), Rat(1, 2), Rat(1, 2))
    /\ "Loss Event Frequency" \in DOMAIN _supplied_values
    /\ DOMAIN _supplied_values["Loss Event Frequency"] = { "mean", "stdev" }
    /\ np_random.pos = NSim

\* C19: every value of a vector generate returns is in [0, 1] for a bounded
\* node and >= 0 for every other node.
C19_ReturnedVectorInRange ==
    (last.op = "generate" /\ last.outcome = "returned")
    => \A i \in 1..Len(returned) :
          /\ RLeq(Zero, returned[i])
          /\ last.target \in _le_1_targets => RLeq(returned[i], One)

\* A normal(0.5, 2) on Vulnerability whose deviates fall on both sides of
\* [0, 1]: the vector returned holds a 0 and a 1.
C19_Witness ==
    /\ last.op = "generate" /\ last.outcome = "returned"
    /\ last.target = "Vulnerability"
    /\ DOMAIN last.kwargs = { "mean", "stdev" }
    /\ \E i, j \in 1..Len(returned) :
          /\ returned[i] = Zero /\ returned[j] = One
          /\ RLess(_gen_normal(NSim, last.kwargs,
                               [ np_random EXCEPT !.pos = @ - NSim ])[i], Zero)
          /\ RLess(One, _gen_normal(NSim, last.kwargs,
                                    [ np_random EXCEPT !.pos = @ - NSim ])[j])

\* The statuses the state machine calls terminal.
TerminalStatuses == { "Not Required", "Supplied", "Calculated" }

\* The calls C11 is about.
StableUnder == { "input_data", "input_raw_data", "calculate_all" }

\* C11 as stated: once a node is Not Required, Supplied or Calculated, no
\* later input_data, input_raw_data or calculate_all call changes its
\* status.
C11_TerminalStatusesNeverChange ==
    [][ last'.op \in StableUnder
        => \A n \in Nodes :
              status[n] \in TerminalStatuses => status'[n] = status[n] ]_vars

\* C11 amended: such a node keeps its status through these calls, except
\* that an accepted input on the node itself makes it Supplied and an
\* accepted input on one of its ancestors makes it Not Required.
C11_TerminalExceptUnderTarget ==
    [][ last'.op \in StableUnder
        => \A n \in Nodes :
              status[n] \in TerminalStatuses
              => IF last'.op = "calculate_all" \/ last'.outcome # "returned"
                 THEN status'[n] = status[n]
                 ELSE IF n = last'.target
                 THEN status'[n] = "Supplied"
                 ELSE IF n \in Descendants(last'.target)
                 THEN status'[n] = "Not Required"
                 ELSE status'[n] = status[n] ]_vars

\* Loss Event Frequency was supplied again after calculate_all had
\* computed Risk: Risk is still Calculated, Loss Magnitude still Supplied
\* and the descendants still Not Required.
C11_Witness ==
    /\ Returned("input_data")
    /\ last.target = "Loss Event Frequency"
    /\ status["Loss Event Frequency"] = "Supplied"
    /\ status["Risk"] = "Calculated"
    /\ status["Loss Magnitude"] = "Supplied"
    /\ \A d \in Descendants("Loss Event Frequency") : status[d] = "Not Required"

\* The three input calls of FairModel.
InputOps == { "input_data", "input_raw_data", "input_multi_data" }

\* C12: whenever input_data, input_raw_data or input_multi_data raises,
\* node statuses, the vector table and the recorded parameter map are as
\* before the call.
C12_RaisingInputChangesNothing ==
    [][ (last'.op \in InputOps /\ n_inputs' # n_inputs /\ last'.outcome # "returned")
        => UNCHANGED << status, _node_statuses, _model_table, _supplied_values >> ]_vars

\* The same for the calls whose target is one of the 13 nodes.
RaisingInputOnNodeChangesNothing ==
    [][ (last'.op \in InputOps /\ n_inputs' # n_inputs /\ last'.outcome # "returned"
         /\ last'.target \in Nodes)
        => UNCHANGED << status, _node_statuses, _model_table, _supplied_values >> ]_vars

\* The entry of key k in dict d, NoVec when it has none.
Entry(d, k) == IF k \in DOMAIN d THEN d[k] ELSE NoVec

\* C13: input_raw_data with a vector whose length is not n_simulations
\* raises, and the target's status, vector and recorded parameters stay as
\* they were.
C13_WrongLengthRawRaises ==
    [][ \A a \in InputRawDataArgs :
            (Len(a[2]) # NSim /\ InputRawData(a[1], a[2]))
            => /\ last'.outcome = "raised"
               /\ status'[a[1]] = status[a[1]]
               /\ _model_table'[a[1]] = _model_table[a[1]]
               /\ Entry(_supplied_values', a[1]) = Entry(_supplied_values, a[1]) ]_vars

\* A short array was refused for Control Strength, which keeps the array
\* supplied before.
C13_Witness ==
    /\ last = [ op |-> "input_raw_data", target |-> "Control Strength", outcome |-> "raised" ]
    /\ status["Control Strength"] = "Supplied"
    /\ _model_table["Control Strength"] = RampArray
    /\ Entry(_supplied_values, "Control Strength") = [ raw |-> RampArray ]

\* The bounds of parametric input applied to an array: within [0, 1] for
\* a bounded node, not negative for every other node.
WithinBounds(target, array) ==
    \A i \in 1..Len(array) :
        /\ RLeq(Zero, array[i])
        /\ target \in _le_1_targets => RLeq(array[i], One)

\* C14: input_raw_data rejects an array with a value outside [0, 1] for a
\* bounded node and with a negative value for every other node; an
\* accepted array is stored unchanged and recorded under the key 'raw'.
C14_RawBoundsAsParametric ==
    [][ \A a \in RawArgs :
            (a[1] \in Nodes /\ Len(a[2]) = NSim /\ n_inputs < MaxCalls
             /\ InputRawData(a[1], a[2]))
            => IF WithinBounds(a[1], a[2])
               THEN /\ last'.outcome = "returned"
                    /\ _model_table'[a[1]] = a[2]
                    /\ Entry(_supplied_values', a[1]) = [ raw |-> a[2] ]
               ELSE /\ last'.outcome = "raised"
                    /\ UNCHANGED << status, _model_table, _supplied_values >> ]_vars

\* The same for the bounded nodes only.
RawBoundsOfBoundedNodes ==
    [][ \A a \in RawArgs :
            (a[1] \in _le_1_targets /\ Len(a[2]) = NSim /\ n_inputs < MaxCalls
             /\ InputRawData(a[1], a[2]))
            => IF WithinBounds(a[1], a[2])
               THEN /\ last'.outcome = "returned"
                    /\ _model_table'[a[1]] = a[2]
                    /\ Entry(_supplied_values', a[1]) = [ raw |-> a[2] ]
               ELSE /\ last'.outcome = "raised"
                    /\ UNCHANGED << status, _model_table, _supplied_values >> ]_vars

\* C15: after input_multi_data(X, items) succeeds X is Calculated, every
\* descendant of X is Not Required, and every other node is as a Supplied
\* event on X leaves it.
C15_MultiDataMarksCalculated ==
    [][ \A a \in InputMultiDataArgs :
            (InputMultiData(a[1], a[2]) /\ last'.outcome = "returned")
            => LET X == a[1]
                   supplied == update_status(status, X, "Supplied")
               IN  /\ status'[X] = "Calculated"
                   /\ \A d \in Descendants(X) : status'[d] = "Not Required"
                   /\ \A n \in Ancestors(X) : status'[n] = supplied[n]
                   /\ \A n \in Nodes \ { X } : status'[n] = supplied[n] ]_vars

\* Secondary Loss was given as multi data over a supplied Primary Loss and
\* a supplied child: it is Calculated, its children are Not Required and
\* Loss Magnitude has been promoted.
C15_Witness ==
    /\ Returned("input_multi_data")
    /\ status["Secondary Loss"] = "Calculated"
    /\ HasVector(_model_table, "Secondary Loss Event Frequency")
    /\ \A d \in Descendants("Secondary Loss") : status[d] = "Not Required"
    /\ status["Primary Loss"] = "Supplied"
    /\ status["Loss Magnitude"] = "Calculable"

\* A PERT set C17 covers: low, the most likely value under either name,
\* high, gamma or not, with 0 <= low <= most likely <= high, low < high
\* and, for a bounded node, all within [0, 1].
MostLikelyKeys == { "mode", "most_likely" }

AcceptablePert(target, kwargs) ==
    /\ \E key \in MostLikelyKeys :
          /\ DOMAIN kwargs \in { { "low", key, "high" }, { "low", key, "high", "gamma" } }
          /\ RLeq(Zero, kwargs["low"])
          /\ RLeq(kwargs["low"], kwargs[key])
          /\ RLeq(kwargs[key], kwargs["high"])
    /\ RLess(kwargs["low"], kwargs["high"])
    /\ target \in _le_1_targets => RLeq(kwargs["high"], One)

\* C17: input_data(node, low, mode or most_likely, high) with such a set
\* is accepted: the node becomes Supplied and the recorded parameters hold
\* the low, most likely and high values, and gamma = 4 if it was omitted.
C17_PertInputAccepted ==
    [][ (last'.op = "input_data" /\ n_inputs' # n_inputs
         /\ last'.target \in Nodes
         /\ AcceptablePert(last'.target, last'.kwargs))
        => LET node == last'.target
               given == last'.kwargs
               recorded == Entry(_supplied_values', node)
           IN  /\ last'.outcome = "returned"
               /\ status'[node] = "Supplied"
               /\ recorded # NoVec
               /\ recorded["low"] = given["low"]
               /\ recorded["high"] = given["high"]
               /\ \E k \in MostLikelyKeys \cap DOMAIN recorded :
                     \E g \in MostLikelyKeys \cap DOMAIN given : recorded[k] = given[g]
               /\ recorded["gamma"] = IF "gamma" \in DOMAIN given
                                      THEN given["gamma"] ELSE Rat(4, 1) ]_vars

\* input_data raises for every PERT set, under either name.
PertInputAlwaysRaises ==
    [][ (last'.op = "input_data" /\ n_inputs' # n_inputs
         /\ DOMAIN last'.kwargs \cap (MostLikelyKeys \cup { "low", "high", "gamma" }) # {})
        => last'.outcome = "raised" ]_vars

\* C20: the vectors a model samples are a function of its own random_seed
\* and its own sequence of input calls: the vector an accepted input_data
\* stores is the one generated from the stream of random_seed at the
\* position the model's own draws have reached, whatever other models were
\* constructed or sampled in between.
C20_VectorsDependOnOwnSeedOnly ==
    [][ (last'.op = "input_data" /\ n_inputs' # n_inputs /\ last'.outcome = "returned")
        => _model_table'[last'.target] =
              GenerateSingle(last'.target, NSim, ModeToMostLikely(last'.kwargs),
                             [ seed |-> random_seed, pos |-> own_draws ]).results ]_vars

\* The same while no other model has touched the generator.
VectorsDependOnOwnSeedWhileAlone ==
    [][ (last'.op = "input_data" /\ n_inputs' # n_inputs /\ last'.outcome = "returned"
         /\ np_random = [ seed |-> random_seed, pos |-> own_draws ])
        => _model_table'[last'.target] =
              GenerateSingle(last'.target, NSim, ModeToMostLikely(last'.kwargs),
                             [ seed |-> random_seed, pos |-> own_draws ]).results ]_vars

\* The queue calculate_all seeds from the dict _node_statuses.
SeededQueue == CalculableNodes(_node_statuses)

Ready(st, n) ==
    /\ st[Child1(n)] \in { "Calculated", "Supplied" }
    /\ st[Child2(n)] \in { "Calculated", "Supplied" }

\* C22: from every reachable state in which ready_for_calculation() is
\* true, calculate_all() terminates: no pass of its while-loop leaves the
\* queue as it found it (each pass marks at least one queued node
\* Calculated), and every node that was queued ends Calculated.
C22_CalculateAllTerminates ==
    [][ (last'.op = "calculate_all" /\ ready_for_calculation(_node_statuses))
        => /\ last'.outcome = "returned"
           /\ \A i \in 1..Len(SeededQueue) : status'[SeededQueue[i]] = "Calculated" ]_vars

\* A call that needed three passes: Vulnerability, then Loss Event
\* Frequency, then Risk.
C22_Witness ==
    /\ Returned("calculate_all")
    /\ SchedulerMarked("Risk")
    /\ SchedulerMarked("Loss Event Frequency")
    /\ SchedulerMarked("Vulnerability")

\* C23: at the moment calculate_all() seeds its queue, every queued node
\* has both children Calculated or Supplied, so every queued node is
\* computed in the first pass of the loop.
C23_QueuedNodesReadyAtSeeding ==
    [][ (last'.op = "calculate_all" /\ last'.outcome # "raised")
        => \A i \in 1..Len(SeededQueue) : Ready(status, SeededQueue[i]) ]_vars

\* C23, amended: the first pass computes exactly the queued nodes whose
\* children are both Calculated or Supplied when the queue is seeded; a
\* queued node with a queued child stands before that child in the queue
\* and waits for a later pass.
C23_FirstPassComputesReadyNodes ==
    [][ (last'.op = "calculate_all" /\ last'.outcome # "raised")
        => LET m == Model(status, _node_statuses, _model_table)
               first_pass == ForEachNode(SeededQueue, 1, m, SeededQueue)
           IN  \A i \in 1..Len(SeededQueue) :
                  (first_pass.m.status[SeededQueue[i]] = "Calculated")
                     <=> Ready(status, SeededQueue[i]) ]_vars

\* A call in which Risk was queued together with its child Loss Event
\* Frequency.
C23_Witness ==
    /\ Returned("calculate_all")
    /\ SchedulerMarked("Risk")
    /\ SchedulerMarked("Loss Event Frequency")
    /\ status["Vulnerability"] = "Supplied"

C25_CalculableHasUsableChildren ==
    \A n \in InnerNodes :
        status[n] = "Calculable"
            => \A c \in ChildSet(n) : status[c] \in AllowsCalculation

\* Loss Event Frequency is Calculable over one Supplied child and one
\* Calculable child, whose own children are Supplied.
C25_Witness ==
    /\ status["Loss Event Frequency"] = "Calculable"
    /\ status["Threat Event Frequency"] = "Supplied"
    /\ status["Vulnerability"] = "Calculable"
    /\ status["Control Strength"] = "Supplied"
    /\ status["Threat Capability"] = "Supplied"

\* C26: in every reachable state none of the 7 leaf nodes is Calculable:
\* a Calculable node (a node calculate_all can queue) has exactly two
\* children and an entry in the combinator lookup table.
C26_LeavesNeverCalculable ==
    /\ Len(_leaf_nodes) = 7
    /\ \A n \in Nodes :
          status[n] = "Calculable"
             => /\ \A i \in 1..Len(_leaf_nodes) : _leaf_nodes[i] # n
                /\ Len(children[n]) = 2
                /\ n \in DOMAIN _function_dict

\* Every inner node is Calculable at once, over seven Supplied leaves.
C26_Witness ==
    /\ \A n \in InnerNodes : status[n] = "Calculable"
    /\ \A i \in 1..Len(_leaf_nodes) : status[_leaf_nodes[i]] = "Supplied"

\* C27: in every reachable state each node with status Supplied or
\* Calculated has a vector of n_simulations values in the table, so
\* _calculate_node never reads a missing child vector.
C27_SuppliedAndCalculatedHaveVectors ==
    \A n \in Nodes :
        status[n] \in { "Supplied", "Calculated" } => Len(_model_table[n]) = NSim

\* Vectors from input_raw_data, input_data and the scheduler side by side.
C27_Witness ==
    /\ Entry(_supplied_values, "Control Strength") = [ raw |-> RampArray ]
    /\ status["Control Strength"] = "Supplied"
    /\ status["Threat Capability"] = "Supplied"
    /\ SchedulerMarked("Vulnerability")
    /\ SchedulerMarked("Risk")
    /\ Len(_model_table["Vulnerability"]) = NSim
    /\ Len(_model_table["Risk"]) = NSim

\* C28: calculate_all() leaves alone the status and the vector of every
\* node that is not Calculable when it is called (Supplied, Not Required,
\* already Calculated, or Required when the call raises); it writes only
\* the statuses and vectors of nodes that were Calculable.
C28_CalculateAllFrame ==
    [][ last'.op = "calculate_all"
        => \A n \in Nodes :
              status[n] # "Calculable"
                 => status'[n] = status[n] /\ _model_table'[n] = _model_table[n] ]_vars

\* A call that computed Loss Event Frequency and Risk beside Supplied
\* nodes and a Not Required one.
C28_Witness ==
    /\ Returned("calculate_all")
    /\ SchedulerMarked("Risk")
    /\ SchedulerMarked("Loss Event Frequency")
    /\ status["Loss Magnitude"] = "Supplied"
    /\ status["Threat Event Frequency"] = "Supplied"
    /\ status["Contact Frequency"] = "Not Required"

\* C29: round trip. For a calculated model built by input_data calls
\* (calculate_all() has just returned on it),
\* FairModel.read_json(model.to_json()) returns a model with the same
\* node-status map.
C29_JsonRoundTripKeepsStatuses ==
    [][ (last'.op = "read_json" /\ Returned("calculate_all"))
        => /\ last'.outcome = "returned"
           /\ loaded'._node_statuses = _node_statuses ]_vars

\* The same for a model on which every input_data call was accepted and
\* named a node no earlier call had named.
JsonRoundTripWithoutResupply ==
    [][ (last'.op = "read_json" /\ Returned("calculate_all")
         /\ Len(key_order) = n_inputs)
        => /\ last'.outcome = "returned"
           /\ loaded'._node_statuses = _node_statuses ]_vars

\* The risk table has a row in which some component has no value.
SomeTrialLacksARisk ==
    \E i \in 1..Len(_risk_table.columns) : isnull_any(_risk_table.data[_risk_table.columns[i]])

\* The component models were built with different n_simulations.
MixedSimulationCounts ==
    \E i, j \in 1..Len(models) : models[i]._n_simulations # models[j]._n_simulations

\* C21: FairMetaModel.calculate_all() raises whenever its component models
\* were built with different n_simulations, so that some trial has no Risk
\* value for some component.
C21_MixedSimulationCountsRaise ==
    [][ (last'.op = "FairMetaModel.calculate_all"
         /\ MixedSimulationCounts /\ SomeTrialLacksARisk)
        => last'.outcome = "raised" ]_vars

\* FairMetaModel.calculate_all() returns, whatever the components.
MetaCalculateAllAlwaysReturns ==
    [][ last'.op = "FairMetaModel.calculate_all" => last'.outcome = "returned" ]_vars

\* The frame without the column name.
WithoutColumn(frame, name) ==
    [ frame EXCEPT !.columns = SelectSeq(@, LAMBDA c : c # name) ]

\* The Risk column is, trial by trial, the sum of the components' columns.
RiskIsSumOfComponents(frame) ==
    frame.data["Risk"] = sum_axis_1(WithoutColumn(frame, "Risk"))

\* C30: FairMetaModel.calculate_all() is idempotent: after a second call
\* the Risk column is still, trial by trial, the sum of the component
\* models' Risk vectors.
C30_MetaCalculateAllIdempotent ==
    [][ (last'.op = "FairMetaModel.calculate_all"
         /\ last.op = "FairMetaModel.calculate_all")
        => RiskIsSumOfComponents(_risk_table') ]_vars

\* After the first call the Risk column is the sum of the components'.
FirstMetaCalculateAllSums ==
    [][ (last'.op = "FairMetaModel.calculate_all" /\ last.op = "FairMetaModel")
        => RiskIsSumOfComponents(_risk_table') ]_vars

====
